---------------------------- MODULE Spec2Model ----------------------------
(***************************************************************************)
(* Model of the resume / job-description alignment core:                   *)
(*   crap_analyzer/analyzer.py  extract_and_categorize_requirements,       *)
(*                              analyze_categorized_alignment              *)
(*   crap_analyzer/parser.py    extract_text_from_pdf                      *)
(*   app.py                     update_analysis_with_clarifications and    *)
(*                              the Streamlit session (script reruns)      *)
(*                                                                         *)
(* A requirement item (a Python str) is a sequence of one-character        *)
(* strings, so that lower(), title() and f-string concatenation are        *)
(* computed and not assumed; a dict key is written as a string and         *)
(* KeyChars gives its characters.                                          *)
(* A float score is the reduced fraction <<numerator, denominator>>; a     *)
(* cosine similarity is an integer number of hundredths.                   *)
(***************************************************************************)
EXTENDS Integers, Sequences, FiniteSets, TLC

VARIABLES
    pc,                 \* position of the run under analysis
    response,           \* outcome of generative_model.generate_content(prompt)
    extracted,          \* return value of extract_and_categorize_requirements
    resume_categories,  \* argument of analyze_categorized_alignment
    jd_categories,      \* argument of analyze_categorized_alignment
    similarity,         \* util.cos_sim of the embeddings, per pair of items
    threshold,          \* argument of analyze_categorized_alignment
    results,            \* return value of analyze_categorized_alignment
    encoded,            \* categories for which embedding_model.encode ran
    encode_raised,      \* the category whose encode call raised, or "none"
    original_analysis,  \* argument of update_analysis_with_clarifications
    user_clarifications,\* argument / st.session_state.user_clarifications
    removed_skills,     \* st.session_state.removed_skills
    updated_analysis,   \* return value of update_analysis_with_clarifications
    reapplied_analysis, \* the same call applied to its own return value
    uploaded_resume,    \* the file in the sidebar's file_uploader
    jd_text,            \* st.session_state.jd_text (the sidebar's text_area)
    resume_text_from_sample, \* st.session_state.resume_text_from_sample
    resume_text,        \* st.session_state.resume_text
    analysis_complete,  \* st.session_state.analysis_complete
    categorized_analysis,    \* st.session_state.categorized_analysis
    skill_clarifications_complete, \* st.session_state, same name
    improvements_generated,  \* st.session_state.improvements_generated
    confirmed_skills,   \* st.session_state.confirmed_skills
    evidence,           \* the text_input widgets exp_<skill_key>
    sidebar_error,      \* the message of st.sidebar.error in the last run
    extract_cache,      \* st.cache_data of extract_and_categorize_requirements
    align_cache,        \* st.cache_data of analyze_categorized_alignment
    generate_runs,      \* per argument tuple, the runs that called generate_content
    encode_runs         \* per argument tuple, the runs that called encode

sessionVars == <<uploaded_resume, jd_text, resume_text_from_sample,
                 resume_text, analysis_complete, categorized_analysis,
                 skill_clarifications_complete, improvements_generated,
                 confirmed_skills, evidence, sidebar_error>>

cacheVars == <<extract_cache, align_cache, generate_runs, encode_runs>>

vars == <<pc, response, extracted, resume_categories, jd_categories,
          similarity, threshold, results, encoded, encode_raised,
          original_analysis, user_clarifications, removed_skills, updated_analysis,
          reapplied_analysis, sessionVars, cacheVars>>

---------------------------------------------------------------------------
(* Bounds of the model.                                                    *)

MaxItems == 2      \* most items drawn for one list / one category mapping
MaxKeys == 1       \* most keys of a JSON object the collaborator returns
MaxCorrections == 2 \* most removals plus clarified items of one reconcile

---------------------------------------------------------------------------
(* Python strings.                                                         *)

LowerChar(c) ==
    CASE c = "A" -> "a"
      [] c = "B" -> "b"
      [] c = "C" -> "c"
      [] OTHER -> c

UpperChar(c) ==
    CASE c = "a" -> "A"
      [] c = "b" -> "B"
      [] c = "c" -> "C"
      [] OTHER -> c

IsCased(c) == c \in {"a", "b", "c", "A", "B", "C"}

\* str.lower()
Lower(s) == [i \in DOMAIN s |-> LowerChar(s[i])]

\* str.title(): a cased character is upper-cased when it follows an uncased
\* character (or starts the string) and lower-cased otherwise.
Title(s) ==
    [i \in DOMAIN s |->
        IF i = 1 \/ ~IsCased(s[i - 1]) THEN UpperChar(s[i]) ELSE LowerChar(s[i])]

---------------------------------------------------------------------------
(* The fixed taxonomy.                                                     *)

EducationCertifications == "education_certifications"
ProfessionalSkills == "professional_skills"
SoftSkills == "soft_skills"
Experience == "experience"

\* a key the taxonomy does not have
OtherKey == "other"

\* the characters of a dict key
KeyChars(key) ==
    CASE key = EducationCertifications ->
            <<"e","d","u","c","a","t","i","o","n","_",
              "c","e","r","t","i","f","i","c","a","t","i","o","n","s">>
      [] key = ProfessionalSkills ->
            <<"p","r","o","f","e","s","s","i","o","n","a","l","_",
              "s","k","i","l","l","s">>
      [] key = SoftSkills -> <<"s","o","f","t","_","s","k","i","l","l","s">>
      [] key = Experience -> <<"e","x","p","e","r","i","e","n","c","e">>
      [] key = OtherKey -> <<"o","t","h","e","r">>

\* the order of the loop in analyze_categorized_alignment
CategoryOrder ==
    <<EducationCertifications, ProfessionalSkills, SoftSkills, Experience>>

Cats == {CategoryOrder[i] : i \in DOMAIN CategoryOrder}

AllKeys == Cats \cup {OtherKey}

---------------------------------------------------------------------------
(* Floats as reduced fractions.                                            *)

RECURSIVE Gcd(_, _)
Gcd(a, b) == IF b = 0 THEN a ELSE Gcd(b, a % b)

\* n / d for n >= 0, d > 0
Frac(n, d) == LET g == Gcd(n, d) IN <<n \div g, d \div g>>

Zero == <<0, 1>>

---------------------------------------------------------------------------
(* Generic helpers on sequences.                                           *)

Range(s) == {s[i] : i \in DOMAIN s}

\* sequences over S of length at most n
SeqsUpTo(S, n) == UNION {[1..k -> S] : k \in 0..n}

\* sequences over S of length at most n without a repeated element
DistinctSeqsUpTo(S, n) ==
    {s \in SeqsUpTo(S, n) : \A i, j \in DOMAIN s : i # j => s[i] # s[j]}

\* a Python dict is the sequence of its <<key, value>> pairs in insertion
\* order; its keys are distinct
Keys(d) == {d[i][1] : i \in DOMAIN d}

HasKey(d, k) == k \in Keys(d)

Lookup(d, k) == d[CHOOSE i \in DOMAIN d : d[i][1] = k][2]

\* dict.get(k, default)
Get(d, k, default) == IF HasKey(d, k) THEN Lookup(d, k) ELSE default

\* dicts of at most n pairs with keys from K and values from V
DictsUpTo(K, V, n) ==
    {d \in SeqsUpTo(K \X V, n) :
        \A i, j \in DOMAIN d : i # j => d[i][1] # d[j][1]}

---------------------------------------------------------------------------
(* JSON values, as json.loads returns them.  [t, v]: t is the Python type, *)
(* v the payload: the pairs of a dict, the elements of a list, the         *)
(* characters of a str; numbers and None carry nothing.                    *)

JObj(pairs) == [t |-> "dict", v |-> pairs]
JArr(elems) == [t |-> "list", v |-> elems]
JStr(s) == [t |-> "str", v |-> s]
JNum == [t |-> "int", v |-> <<>>]
JNull == [t |-> "NoneType", v |-> <<>>]

\* a list of str, as a JSON value
JStrList(items) == JArr([i \in DOMAIN items |-> JStr(items[i])])

---------------------------------------------------------------------------
(* extract_and_categorize_requirements (analyzer.py 30-79).                *)

\* the value of the except branch
FallbackCategories ==
    JObj(<< <<EducationCertifications, <<>> >>,
            <<ProfessionalSkills, <<>> >>,
            <<SoftSkills, <<>> >>,
            <<Experience, <<>> >> >>)

\* response.text.strip().replace("```json", "").replace("```", ""):
\* the code fences around the payload are dropped
CleanedResponse(resp) == [resp EXCEPT !.fenced = FALSE]

\* json.loads(cleaned_response): the parsed value, or a JSONDecodeError
JsonLoads(cleaned) ==
    IF cleaned.kind = "json" /\ ~cleaned.fenced
    THEN [ok |-> TRUE, value |-> cleaned.body]
    ELSE [ok |-> FALSE, value |-> JNull]

\* what "for item in value" yields: the elements of a list, the characters
\* of a str, the keys of a dict; an int or None is not iterable
IsIterable(value) == value.t \in {"list", "str", "dict"}

IterItems(value) ==
    CASE value.t = "list" -> value.v
      [] value.t = "str" -> [i \in DOMAIN value.v |-> JStr(<<value.v[i]>>)]
      [] value.t = "dict" ->
            [i \in DOMAIN value.v |-> JStr(KeyChars(value.v[i][1]))]

\* [item.lower() for item in value] raises unless value is iterable and
\* every item it yields is a str
LowerRaises(value) ==
    \/ ~IsIterable(value)
    \/ \E i \in DOMAIN IterItems(value) : IterItems(value)[i].t # "str"

LowerItems(value) ==
    [i \in DOMAIN IterItems(value) |-> Lower(IterItems(value)[i].v)]

\* lines 67-71 on the parsed value.  Iterating a dict yields its keys and each
\* value is replaced by its lowered items.  Iterating a non-empty list or str
\* yields an element that is no valid index of it (data[element] raises, or
\* the element indexed is an int, or it was replaced by a list before its
\* turn), so only the empty list and the empty str pass through; an int or
\* None is not iterable.
NormalizeRaises(data) ==
    CASE data.t = "dict" -> \E i \in DOMAIN data.v : LowerRaises(data.v[i][2])
      [] data.t \in {"list", "str"} -> data.v # <<>>
      [] OTHER -> TRUE

Normalize(data) ==
    IF data.t = "dict"
    THEN JObj([i \in DOMAIN data.v |-> <<data.v[i][1], LowerItems(data.v[i][2])>>])
    ELSE data

ExtractAndCategorize(resp) ==
    IF resp.kind = "raise" THEN FallbackCategories
    ELSE LET loaded == JsonLoads(CleanedResponse(resp)) IN
         IF ~loaded.ok \/ NormalizeRaises(loaded.value)
         THEN FallbackCategories
         ELSE Normalize(loaded.value)

---------------------------------------------------------------------------
(* The collaborator's outcomes the extractor is run on.                    *)

\* item strings as the collaborator writes them, before normalisation
RawItems == {<<"A">>, <<"a">>, <<"b">>}

\* the values a JSON object of the collaborator holds under a key: lists of
\* strings, and the malformed ones (a list with a number in it, a bare
\* string, a number, null, a nested object)
EntryValues ==
    {JStrList(l) : l \in SeqsUpTo(RawItems, MaxItems)}
        \cup {JArr(<<JNum>>), JStr(<<"A", "b">>), JNum, JNull,
              JObj(<< <<OtherKey, JNum>> >>)}

\* the four categories, professional_skills holding the list l
FullPairs(l) ==
    << <<EducationCertifications, JStrList(<<>>)>>,
       <<ProfessionalSkills, JStrList(l)>>,
       <<SoftSkills, JStrList(<<>>)>>,
       <<Experience, JStrList(<<>>)>> >>

Bodies ==
    {JObj(d) : d \in DictsUpTo(AllKeys, EntryValues, MaxKeys)}
        \cup {JObj(FullPairs(l)) : l \in SeqsUpTo(RawItems, MaxItems)}
        \cup {JObj(Append(FullPairs(l), <<OtherKey, JStrList(l)>>)) :
                 l \in SeqsUpTo(RawItems, MaxItems)}
        \cup {JArr(<<>>), JArr(<<JNum>>), JStr(<<>>), JStr(<<"a">>), JNum, JNull}

\* generate_content raises (or response.text does); the text is no JSON;
\* the text is JSON, with or without code fences around it
Responses ==
    {[kind |-> k, fenced |-> FALSE, body |-> JNull] : k \in {"raise", "garbage"}}
        \cup {[kind |-> "json", fenced |-> f, body |-> b] :
                 f \in BOOLEAN, b \in Bodies}

---------------------------------------------------------------------------
(* Values of the variables a specification does not use.                   *)

Idle == <<>>

extractVars == <<response, extracted>>
alignVars == <<resume_categories, jd_categories, similarity, threshold,
               results, encoded, encode_raised>>
reconcileVars == <<original_analysis, user_clarifications, removed_skills,
                   updated_analysis, reapplied_analysis>>

ExtractIdle == response = Idle /\ extracted = Idle
AlignIdle ==
    /\ resume_categories = Idle /\ jd_categories = Idle /\ similarity = Idle
    /\ threshold = 0 /\ results = Idle /\ encoded = {}
    /\ encode_raised = "none"
ReconcileIdle ==
    /\ original_analysis = Idle /\ user_clarifications = Idle
    /\ removed_skills = {} /\ updated_analysis = Idle
    /\ reapplied_analysis = Idle
CacheIdle ==
    /\ extract_cache = Idle /\ align_cache = Idle
    /\ generate_runs = Idle /\ encode_runs = Idle
SessionIdle ==
    /\ uploaded_resume = "none" /\ jd_text = "" /\ resume_text_from_sample = ""
    /\ resume_text = "" /\ analysis_complete = FALSE
    /\ categorized_analysis = Idle
    /\ skill_clarifications_complete = FALSE
    /\ improvements_generated = FALSE
    /\ confirmed_skills = {} /\ evidence = Idle /\ sidebar_error = ""

---------------------------------------------------------------------------
(* SpecExtract: extract_and_categorize_requirements on every outcome of    *)
(* the text-generation collaborator.                                       *)

InitExtract ==
    /\ pc = "call"
    /\ response \in Responses
    /\ extracted = JNull
    /\ AlignIdle /\ ReconcileIdle /\ SessionIdle /\ CacheIdle

Extract ==
    /\ pc = "call"
    /\ extracted' = ExtractAndCategorize(response)
    /\ pc' = "returned"
    /\ UNCHANGED <<response, alignVars, reconcileVars, sessionVars, cacheVars>>

NextExtract == Extract

SpecExtract == InitExtract /\ [][NextExtract]_vars

\* a list in which no element occurs twice
NoDuplicates(list) == \A i, j \in DOMAIN list : i # j => list[i] # list[j]

\* a JSON list whose elements are all strings
IsListOfStr(value) ==
    value.t = "list" /\ \A i \in DOMAIN value.v : value.v[i].t = "str"

\* the structure the prompt asks for: an object whose entries are lists of
\* strings
IsExpectedStructure(body) ==
    body.t = "dict" /\ \A i \in DOMAIN body.v : IsListOfStr(body.v[i][2])

\* the collaborator raised, or its text is no JSON, or the JSON is not of the
\* expected structure
MalformedResponse(resp) ==
    resp.kind # "json" \/ ~IsExpectedStructure(resp.body)

\* C6: whatever the collaborator returns, the extractor returns a mapping
\* whose keys are exactly the four categories, each mapped to a list (an
\* omitted category is inserted as empty, an extra key is never exposed).
C6_TaxonomyComplete ==
    pc = "returned" =>
        extracted.t = "dict" /\ Keys(extracted.v) = Cats

\* C7: when the collaborator raises or returns output that is not the
\* expected structure (no JSON, or JSON whose entries are not lists of
\* strings), the extractor returns the four categories, all empty.
C7_MalformedGivesEmpty ==
    (pc = "returned" /\ MalformedResponse(response)) =>
        extracted = FallbackCategories

\* C8: no string occurs twice in a category list the extractor returns.
C8_NoDuplicateItems ==
    (pc = "returned" /\ extracted.t = "dict") =>
        \A i \in DOMAIN extracted.v :
            extracted.v[i][1] \in Cats => NoDuplicates(extracted.v[i][2])

---------------------------------------------------------------------------
(* analyze_categorized_alignment (analyzer.py 81-148).                     *)

DefaultThreshold == 65      \* threshold=0.65, in hundredths

CharCode(c) ==
    CASE c = "A" -> 65
      [] c = "B" -> 66
      [] c = "C" -> 67
      [] c = "_" -> 95
      [] c = "a" -> 97
      [] c = "b" -> 98
      [] c = "c" -> 99
      [] OTHER -> 0

\* s < t for Python strs: lexicographic by code point
StrLess(s, t) ==
    \E k \in 1..(Len(s) + 1) :
        /\ k <= Len(t)
        /\ \A i \in 1..(k - 1) : s[i] = t[i]
        /\ k = Len(s) + 1 \/ CharCode(s[k]) < CharCode(t[k])

\* sorted(list(S)) for a set S of strs
SortedList(S) ==
    [n \in 1..Cardinality(S) |->
        CHOOSE x \in S : Cardinality({y \in S : StrLess(y, x)}) = n - 1]

\* the elements of seq at the indices K, in the order of seq
AtIndices(seq, K) ==
    [n \in 1..Cardinality(K) |->
        seq[CHOOSE k \in K : Cardinality({m \in K : m < k}) = n - 1]]

SetMax(S) == CHOOSE x \in S : \A y \in S : y <= x

\* ColumnMax reading the first resume item's row only
ColumnFirstRow(resume_items, jd_items, sim, jd_idx) ==
    sim[resume_items[1], jd_items[jd_idx]]

\* similarity_matrix[:, jd_idx].max()
ColumnMax(resume_items, jd_items, sim, jd_idx) ==
    SetMax({sim[resume_items[i], jd_items[jd_idx]] : i \in DOMAIN resume_items})

\* similarity_matrix[resume_idx].max()
RowMax(resume_items, jd_items, sim, resume_idx) ==
    SetMax({sim[resume_items[resume_idx], jd_items[j]] : j \in DOMAIN jd_items})

\* similarity_matrix[resume_idx].argmax(): the first index of the maximum
RowArgMax(resume_items, jd_items, sim, resume_idx) ==
    CHOOSE j \in DOMAIN jd_items :
        /\ sim[resume_items[resume_idx], jd_items[j]]
               = RowMax(resume_items, jd_items, sim, resume_idx)
        /\ \A m \in 1..(j - 1) :
               sim[resume_items[resume_idx], jd_items[m]]
                   < RowMax(resume_items, jd_items, sim, resume_idx)

\* MissingIndices with a single pass: a JD item that no resume item is
\* paired with is missing as well
MissingIndicesUnpaired(resume_items, jd_items, sim, t) ==
    {j \in DOMAIN jd_items :
        \/ ColumnMax(resume_items, jd_items, sim, j) < t
        \/ \A i \in DOMAIN resume_items :
               \/ RowMax(resume_items, jd_items, sim, i) < t
               \/ RowArgMax(resume_items, jd_items, sim, i) # j}

\* MissingIndices counting a best score equal to the threshold as missing
MissingIndicesAtOrBelow(resume_items, jd_items, sim, t) ==
    {j \in DOMAIN jd_items : ColumnMax(resume_items, jd_items, sim, j) <= t}

\* MissingIndices with the comparison of line 114 inverted
MissingIndicesInverted(resume_items, jd_items, sim, t) ==
    {j \in DOMAIN jd_items : ColumnMax(resume_items, jd_items, sim, j) > t}

\* lines 112-117: the indices of the JD items whose best score is below the
\* threshold
MissingIndices(resume_items, jd_items, sim, t) ==
    {j \in DOMAIN jd_items : ColumnMax(resume_items, jd_items, sim, j) < t}

\* MatchedResumeIndices letting one resume item only pair with a JD item
MatchedResumeIndicesOneToOne(resume_items, jd_items, sim, t) ==
    {i \in DOMAIN resume_items :
        /\ RowMax(resume_items, jd_items, sim, i) >= t
        /\ \A m \in 1..(i - 1) :
               RowMax(resume_items, jd_items, sim, m) >= t =>
                   RowArgMax(resume_items, jd_items, sim, m)
                       # RowArgMax(resume_items, jd_items, sim, i)}

\* lines 123-136: the indices of the resume items that get a match record
MatchedResumeIndices(resume_items, jd_items, sim, t) ==
    {i \in DOMAIN resume_items :
        /\ RowMax(resume_items, jd_items, sim, i) >= t
        /\ RowArgMax(resume_items, jd_items, sim, i)
               \notin MissingIndices(resume_items, jd_items, sim, t)}

\* lines 133-134: the resume items whose best score is at least the
\* threshold and whose best target was flagged missing; they go to unique
UniqueByMissingTarget(resume_items, jd_items, sim, t) ==
    {i \in DOMAIN resume_items :
        /\ RowMax(resume_items, jd_items, sim, i) >= t
        /\ RowArgMax(resume_items, jd_items, sim, i)
               \in MissingIndices(resume_items, jd_items, sim, t)}

\* lines 135-136: the resume items whose best score is below the threshold
UniqueBelowThreshold(resume_items, jd_items, sim, t) ==
    {i \in DOMAIN resume_items : RowMax(resume_items, jd_items, sim, i) < t}

MatchRecord(resume_items, jd_items, sim, i) ==
    [resume_item |-> Title(resume_items[i]),
     jd_item |-> Title(jd_items[RowArgMax(resume_items, jd_items, sim, i)]),
     similarity |-> RowMax(resume_items, jd_items, sim, i)]

\* lines 139 and 145: (len(jd_items) - len(missing_items)) / len(jd_items),
\* floored at 0; missing_items is the list before set() and sorted()
MatchPercentage(jd_items, missing_items) ==
    LET match_percentage ==
            IF Len(jd_items) > 0
            THEN Frac(Len(jd_items) - Len(missing_items), Len(jd_items))
            ELSE Zero
    IN IF match_percentage[1] > 0 THEN match_percentage ELSE Zero

\* DegenerateAlignment scoring "nothing required" as a full match
DegenerateAlignmentFullScore(resume_items, jd_items) ==
    [matched |-> <<>>, missing |-> jd_items, unique |-> resume_items,
     match_percentage |-> IF jd_items = <<>> THEN <<1, 1>> ELSE Zero]

\* the value of the early branch (lines 92-99)
DegenerateAlignment(resume_items, jd_items) ==
    [matched |-> <<>>, missing |-> jd_items, unique |-> resume_items,
     match_percentage |-> Zero]

\* the body of the loop over the categories, for one category
AlignCategory(resume_items, jd_items, sim, t) ==
    IF resume_items = <<>> \/ jd_items = <<>>
    THEN DegenerateAlignment(resume_items, jd_items)
    ELSE LET missing_idx == MissingIndices(resume_items, jd_items, sim, t)
             matched_idx == MatchedResumeIndices(resume_items, jd_items, sim, t)
             missing_items == AtIndices(jd_items, missing_idx)
             unique_items ==
                 AtIndices(resume_items,
                           UniqueByMissingTarget(resume_items, jd_items, sim, t)
                               \cup UniqueBelowThreshold(resume_items, jd_items,
                                                         sim, t))
             matched_items ==
                 LET picked == AtIndices([i \in DOMAIN resume_items |-> i],
                                         matched_idx)
                 IN [n \in DOMAIN picked |->
                        MatchRecord(resume_items, jd_items, sim, picked[n])]
         IN [matched |-> matched_items,
             missing |-> SortedList(Range(missing_items)),
             unique |-> SortedList(Range(unique_items)),
             match_percentage |-> MatchPercentage(jd_items, missing_items)]

\* resume_categories.get(category, []) needs a dict
AnalyzeRaises(resume_cats, jd_cats) ==
    resume_cats.t # "dict" \/ jd_cats.t # "dict"

\* AnalyzeCategorizedAlignment looping over the keys the JD mapping holds
AnalyzeGivenKeys(resume_cats, jd_cats, sim, t) ==
    [category \in Keys(jd_cats.v) |->
        AlignCategory(Get(resume_cats.v, category, <<>>),
                      Get(jd_cats.v, category, <<>>), sim, t)]

\* lines 86-148: the loop over the four fixed names
AnalyzeCategorizedAlignment(resume_cats, jd_cats, sim, t) ==
    [category \in Cats |->
        AlignCategory(Get(resume_cats.v, category, <<>>),
                      Get(jd_cats.v, category, <<>>), sim, t)]

\* the categories that reach embedding_model.encode (lines 102-103)
EncodedCategories(resume_cats, jd_cats) ==
    {category \in Cats :
        /\ Get(resume_cats.v, category, <<>>) # <<>>
        /\ Get(jd_cats.v, category, <<>>) # <<>>}

---------------------------------------------------------------------------
(* The arguments analyze_categorized_alignment is run on.                  *)

\* normalised requirement items
Items == {<<"a">>, <<"b">>}

\* the items of a job description: those a resume states too, and one that no
\* resume states in these words
Requirements == Items \cup {<<"c">>}

\* cosine similarities of two different items, in hundredths: below both
\* thresholds, equal to the lower one, between the two, above both
SimValues == {30, 65, 68, 99}

Thresholds == {DefaultThreshold, 70}

\* util.cos_sim on the embeddings of the items: the embedding of a string is
\* deterministic, so the score is a function of the two strings; it is
\* symmetric and an item is at similarity 1.0 to itself
Similarities ==
    LET pairs == {{x, y} : x, y \in Requirements} \ {{x} : x \in Requirements}
    IN {[p \in Requirements \X Requirements |->
            IF p[1] = p[2] THEN 100 ELSE score[{p[1], p[2]}]] :
        score \in [pairs -> SimValues]}

RECURSIVE TotalLen(_, _)
TotalLen(f, S) ==
    IF S = {} THEN 0
    ELSE LET c == CHOOSE c \in S : TRUE IN Len(f[c]) + TotalLen(f, S \ {c})

\* the categories that hold items in the documents drawn; the other two are
\* empty
PopulatedCats == {ProfessionalSkills, SoftSkills}

\* the item lists of the four categories, MaxItems items in all at most
Assignments ==
    {f \in [Cats -> SeqsUpTo(Items, MaxItems)] :
        /\ \A c \in Cats \ PopulatedCats : f[c] = <<>>
        /\ TotalLen(f, Cats) <= MaxItems}

\* the same for a job description
JdAssignments ==
    {f \in [Cats -> SeqsUpTo(Requirements, MaxItems)] :
        /\ \A c \in Cats \ PopulatedCats : f[c] = <<>>
        /\ TotalLen(f, Cats) <= MaxItems}

\* the mapping a document's extraction gives: "sparse" holds only the
\* categories that have items, "full" holds all four, "extra" is sparse with
\* a key outside the taxonomy
MappingStyles == {"sparse", "full", "extra"}

CategoryMapping(f, style) ==
    LET present ==
            IF style = "full" THEN DOMAIN CategoryOrder
            ELSE {i \in DOMAIN CategoryOrder : f[CategoryOrder[i]] # <<>>}
        kept == AtIndices(CategoryOrder, present)
        pairs == [n \in DOMAIN kept |-> <<kept[n], f[kept[n]]>>]
    IN JObj(IF style = "extra" THEN Append(pairs, <<OtherKey, <<(<<"a">>)>> >>)
            ELSE pairs)

---------------------------------------------------------------------------
(* SpecAlign: analyze_categorized_alignment on every pair of category      *)
(* mappings, similarity and threshold of the bounded sets.                 *)

InitAlign ==
    /\ pc = "call"
    /\ \E style \in MappingStyles, f \in Assignments, g \in JdAssignments :
          /\ resume_categories = CategoryMapping(f, style)
          /\ jd_categories = CategoryMapping(g, style)
    /\ similarity \in Similarities
    /\ threshold \in Thresholds
    /\ results = Idle
    /\ encoded = {}
    /\ encode_raised = "none"
    /\ ExtractIdle /\ ReconcileIdle /\ SessionIdle /\ CacheIdle

\* the call returns, or embedding_model.encode (lines 102-103) raises in the
\* n-th category of the loop: nothing in the function catches it, so the
\* loop stops there and no value is returned
Analyze ==
    /\ pc = "call"
    /\ \/ /\ results' = AnalyzeCategorizedAlignment(resume_categories,
                                                     jd_categories,
                                                     similarity, threshold)
          /\ encoded' = EncodedCategories(resume_categories, jd_categories)
          /\ encode_raised' = "none"
          /\ pc' = "returned"
       \/ \E n \in DOMAIN CategoryOrder :
             /\ CategoryOrder[n]
                    \in EncodedCategories(resume_categories, jd_categories)
             /\ encoded' = {CategoryOrder[m] : m \in 1..n}
                               \cap EncodedCategories(resume_categories,
                                                      jd_categories)
             /\ encode_raised' = CategoryOrder[n]
             /\ results' = Idle
             /\ pc' = "raised"
    /\ UNCHANGED <<resume_categories, jd_categories, similarity, threshold,
                   extractVars, reconcileVars, sessionVars, cacheVars>>

NextAlign == Analyze

SpecAlign == InitAlign /\ [][NextAlign]_vars

\* the item lists of a category, as the loop reads them (lines 89-90)
ResumeItems(category) == Get(resume_categories.v, category, <<>>)
JdItems(category) == Get(jd_categories.v, category, <<>>)

\* C3: in every category with a non-empty JD list, match_percentage is
\* (|jd_items| - |missing|) / |jd_items| for the missing list returned,
\* also when the JD list holds a string more than once.
C3_PercentageFromReturnedMissing ==
    pc = "returned" =>
        \A category \in Cats :
            JdItems(category) # <<>> =>
                results[category].match_percentage
                    = Frac(Len(JdItems(category)) - Len(results[category].missing),
                           Len(JdItems(category)))

\* C4: a category with no resume items yields matched = [], unique = [],
\* missing = the JD items and score 0; one with no JD items yields
\* matched = [], unique = the resume items, missing = [] and score 0; in
\* neither is a similarity computed.
C4_EmptyInputConvention ==
    pc = "returned" =>
        \A category \in Cats :
            /\ ResumeItems(category) = <<>> =>
                  /\ results[category] =
                        [matched |-> <<>>, unique |-> <<>>,
                         missing |-> JdItems(category), match_percentage |-> Zero]
                  /\ category \notin encoded
            /\ JdItems(category) = <<>> =>
                  /\ results[category] =
                        [matched |-> <<>>, unique |-> ResumeItems(category),
                         missing |-> <<>>, match_percentage |-> Zero]
                  /\ category \notin encoded

\* C4 witness: one category has JD items and no resume items, another has
\* resume items and no JD items, and the analysis has returned.
C4_Witness ==
    /\ pc = "returned"
    /\ \E c1, c2 \in Cats :
          /\ ResumeItems(c1) = <<>> /\ JdItems(c1) # <<>>
          /\ results[c1].missing = JdItems(c1)
          /\ JdItems(c2) = <<>> /\ ResumeItems(c2) # <<>>
          /\ results[c2].unique = ResumeItems(c2)

\* C5: for the same item lists and similarities, a threshold at least as
\* high gives, in every category, at least as many missing items and at most
\* as many match records.
C5_ThresholdMonotone ==
    pc = "returned" =>
        \A t2 \in Thresholds :
            t2 >= threshold =>
                LET higher == AnalyzeCategorizedAlignment(
                                  resume_categories, jd_categories, similarity, t2)
                IN \A category \in Cats :
                      /\ Len(higher[category].missing)
                            >= Len(results[category].missing)
                      /\ Len(higher[category].matched)
                            <= Len(results[category].matched)

\* C5 witness: the analysis ran at the lower threshold and the higher one
\* strictly loses a match record and gains a missing item in some category.
C5_Witness ==
    /\ pc = "returned"
    /\ threshold = DefaultThreshold
    /\ \E category \in Cats :
          LET higher == AnalyzeCategorizedAlignment(
                            resume_categories, jd_categories, similarity, 70)
          IN /\ Len(higher[category].missing) > Len(results[category].missing)
             /\ Len(higher[category].matched) < Len(results[category].matched)

\* C11: if the embedding provider fails while aligning a category, the call
\* still returns all four categories, the failing one holding the degenerate
\* alignment (matched = [], missing = the JD items, unique = the resume
\* items, score 0); the failure does not reach the caller.
C11_EmbeddingFailureDegrades ==
    encode_raised # "none" =>
        /\ pc = "returned"
        /\ DOMAIN results = Cats
        /\ results[encode_raised] =
               [matched |-> <<>>, missing |-> JdItems(encode_raised),
                unique |-> ResumeItems(encode_raised),
                match_percentage |-> Zero]

\* C15: in a category where both lists hold items, a JD item is in the
\* returned missing list exactly when its similarity to every resume item is
\* strictly below the threshold; a best score equal to the threshold is not
\* missing, whichever resume item gives it.
C15_MissingIffBestBelowThreshold ==
    pc = "returned" =>
        \A category \in Cats :
            (ResumeItems(category) # <<>> /\ JdItems(category) # <<>>) =>
                \A j \in DOMAIN JdItems(category) :
                    (JdItems(category)[j] \in Range(results[category].missing))
                        <=> \A i \in DOMAIN ResumeItems(category) :
                                similarity[ResumeItems(category)[i],
                                           JdItems(category)[j]] < threshold

\* C15 witness: a JD item scores below the threshold against the first of
\* two resume items and exactly the threshold against the second, and the
\* returned missing list does not hold it.
C15_Witness ==
    /\ pc = "returned"
    /\ \E category \in Cats :
          /\ Len(ResumeItems(category)) = 2
          /\ \E j \in DOMAIN JdItems(category) :
                /\ similarity[ResumeItems(category)[1], JdItems(category)[j]]
                       < threshold
                /\ similarity[ResumeItems(category)[2], JdItems(category)[j]]
                       = threshold
                /\ JdItems(category)[j] \notin Range(results[category].missing)

\* C16: in a category where both lists hold items, every resume item has
\* exactly one outcome: if its best score is at least the threshold, one
\* match record with the first JD item of that score (which is not missing)
\* and the score, and it is not in unique; otherwise it is in unique and
\* has no record. Several resume items may pair with the same JD item.
C16_OneOutcomePerResumeItem ==
    pc = "returned" =>
        \A category \in Cats :
            LET r == ResumeItems(category)
                jd == JdItems(category)
                res == results[category]
                score(i, j) == similarity[r[i], jd[j]]
                paired == {i \in DOMAIN r :
                              \E j \in DOMAIN jd : score(i, j) >= threshold}
            IN (r # <<>> /\ jd # <<>>) =>
                  /\ Len(res.matched) = Cardinality(paired)
                  /\ \A i \in paired :
                        /\ r[i] \notin Range(res.unique)
                        /\ \E j \in DOMAIN jd :
                              /\ \A k \in DOMAIN jd : score(i, k) <= score(i, j)
                              /\ \A k \in 1..(j - 1) : score(i, k) < score(i, j)
                              /\ jd[j] \notin Range(res.missing)
                              /\ [resume_item |-> Title(r[i]),
                                  jd_item |-> Title(jd[j]),
                                  similarity |-> score(i, j)]
                                     \in Range(res.matched)
                  /\ \A i \in DOMAIN r \ paired :
                        /\ r[i] \in Range(res.unique)
                        /\ \A m \in DOMAIN res.matched :
                               res.matched[m].resume_item # Title(r[i])

\* C16 witness: two resume items are paired with the same JD item, so that
\* there are more match records than JD items.
C16_Witness ==
    /\ pc = "returned"
    /\ \E category \in Cats :
          /\ JdItems(category) # <<>>
          /\ Len(results[category].matched) > Len(JdItems(category))
          /\ results[category].matched[1].jd_item
                 = results[category].matched[2].jd_item

\* C21: the two passes test independently. A JD item that some resume item
\* reaches with a score of at least the threshold, but that is the best
\* target of no such resume item, is returned neither in missing nor as the
\* jd_item of a match record, and the score still counts it: the score is
\* the share of the JD entries that are not missing.
C21_SatisfiedWithoutRecord ==
    pc = "returned" =>
        \A category \in Cats :
            LET r == ResumeItems(category)
                jd == JdItems(category)
                res == results[category]
                score(i, j) == similarity[r[i], jd[j]]
                best(i, j) == /\ score(i, j) >= threshold
                              /\ \A k \in DOMAIN jd : score(i, k) <= score(i, j)
                              /\ \A k \in 1..(j - 1) : score(i, k) < score(i, j)
                reached == {j \in DOMAIN jd :
                               \E i \in DOMAIN r : score(i, j) >= threshold}
                unpaired == {j \in reached :
                                \A i \in DOMAIN r : \A k \in DOMAIN jd :
                                    best(i, k) => jd[k] # jd[j]}
            IN (r # <<>> /\ jd # <<>>) =>
                  /\ \A j \in unpaired :
                        /\ jd[j] \notin Range(res.missing)
                        /\ \A m \in DOMAIN res.matched :
                               res.matched[m].jd_item # Title(jd[j])
                  /\ res.match_percentage
                         = Frac(Cardinality(reached), Len(jd))

\* C21 witness: one resume item scores at least the threshold with two JD
\* items; the result has one record, an empty missing list and a full score,
\* and the second JD item is in neither list.
C21_Witness ==
    /\ pc = "returned"
    /\ \E category \in Cats :
          LET r == ResumeItems(category)
              jd == JdItems(category)
              res == results[category]
          IN /\ Len(r) = 1 /\ Len(jd) = 2 /\ jd[1] # jd[2]
             /\ similarity[r[1], jd[1]] >= threshold
             /\ similarity[r[1], jd[2]] >= threshold
             /\ res.missing = <<>>
             /\ Len(res.matched) = 1
             /\ res.match_percentage = <<1, 1>>
             /\ \E j \in 1..2 :
                   /\ jd[j] \notin Range(res.missing)
                   /\ res.matched[1].jd_item # Title(jd[j])

\* C24: in a category where both lists hold items, the first best target of
\* a resume item whose best score is at least the threshold is never flagged
\* missing; so the resume item has a match record exactly when its best
\* score is at least the threshold, it is in unique exactly when it is
\* below, and no resume item takes the branch of lines 133-134.
C24_BestTargetNeverMissing ==
    pc = "returned" =>
        \A category \in Cats :
            LET r == ResumeItems(category)
                jd == JdItems(category)
                res == results[category]
            IN (r # <<>> /\ jd # <<>>) =>
                  /\ UniqueByMissingTarget(r, jd, similarity, threshold) = {}
                  /\ \A i \in DOMAIN r :
                        LET above == RowMax(r, jd, similarity, i) >= threshold
                            target == jd[RowArgMax(r, jd, similarity, i)]
                        IN /\ above => target \notin Range(res.missing)
                           /\ above <=> \E m \in DOMAIN res.matched :
                                  res.matched[m].resume_item = Title(r[i])
                           /\ above <=> r[i] \notin Range(res.unique)

\* C24 witness: the best target of a resume item at or above the threshold
\* is a JD item that the other resume item scores below the threshold, and
\* the record is made.
C24_Witness ==
    /\ pc = "returned"
    /\ \E category \in Cats :
          LET r == ResumeItems(category)
              jd == JdItems(category)
              res == results[category]
          IN /\ Len(r) = 2 /\ jd # <<>>
             /\ \E j \in DOMAIN jd :
                   /\ similarity[r[1], jd[j]] < threshold
                   /\ similarity[r[2], jd[j]] >= threshold
                   /\ RowArgMax(r, jd, similarity, 2) = j
                   /\ jd[j] \notin Range(res.missing)
                   /\ \E m \in DOMAIN res.matched :
                         /\ res.matched[m].resume_item = Title(r[2])
                         /\ res.matched[m].jd_item = Title(jd[j])

\* the fields of a category of the result
AlignmentFields == {"matched", "missing", "unique", "match_percentage"}

\* C12: whatever keys the two input mappings hold (some of the four missing,
\* or a key outside the four), a returned result has exactly the four
\* category keys, each with matched, missing, unique and match_percentage,
\* and a category an input does not hold is aligned as an empty list.
C12_FourCategoryResult ==
    pc = "returned" =>
        /\ DOMAIN results = Cats
        /\ \A category \in Cats :
              /\ DOMAIN results[category] = AlignmentFields
              /\ ~HasKey(resume_categories.v, category) =>
                    /\ results[category].matched = <<>>
                    /\ results[category].unique = <<>>
                    /\ results[category].match_percentage = Zero
                    /\ results[category].missing =
                           IF HasKey(jd_categories.v, category)
                           THEN Lookup(jd_categories.v, category) ELSE <<>>
              /\ ~HasKey(jd_categories.v, category) =>
                    /\ results[category].matched = <<>>
                    /\ results[category].missing = <<>>
                    /\ results[category].match_percentage = Zero
                    /\ results[category].unique =
                           IF HasKey(resume_categories.v, category)
                           THEN Lookup(resume_categories.v, category) ELSE <<>>

\* C12 witness: the call returned on mappings that each lack a category the
\* other holds, and that carry a key outside the four.
C12_Witness ==
    /\ pc = "returned"
    /\ HasKey(resume_categories.v, OtherKey)
    /\ HasKey(jd_categories.v, OtherKey)
    /\ \E c1, c2 \in Cats :
          /\ ~HasKey(resume_categories.v, c1) /\ HasKey(jd_categories.v, c1)
          /\ HasKey(resume_categories.v, c2) /\ ~HasKey(jd_categories.v, c2)
          /\ results[c1].missing # <<>>
          /\ results[c2].unique # <<>>

---------------------------------------------------------------------------
(* update_analysis_with_clarifications (app.py 108-164).                   *)

\* SkillKey without the category
SkillKeyBare(category_key, skill) ==
    skill

\* f"{category_key}_{skill}"
SkillKey(category_key, skill) ==
    KeyChars(category_key) \o <<"_">> \o skill

\* list.remove(x): drops the first occurrence of x
RemoveFirst(list, x) ==
    LET first == CHOOSE i \in DOMAIN list :
                     list[i] = x /\ \A m \in 1..(i - 1) : list[m] # x
    IN [n \in 1..(Len(list) - 1) |-> IF n < first THEN list[n] ELSE list[n + 1]]

\* lines 126-130: the missing skills whose key is in removed_skills, one
\* entry per occurrence
SkillsToRemove(category_key, missing_skills, removed) ==
    AtIndices(missing_skills,
              {i \in DOMAIN missing_skills :
                  SkillKey(category_key, missing_skills[i]) \in removed})

\* lines 132-133
RECURSIVE RemoveEach(_, _)
RemoveEach(missing_skills, skills_to_remove) ==
    IF skills_to_remove = <<>> THEN missing_skills
    ELSE RemoveEach(RemoveFirst(missing_skills, Head(skills_to_remove)),
                    Tail(skills_to_remove))

\* lines 139-147: the clarified skills in the order of the dict; lists is
\* [missing, matched]
RECURSIVE MoveClarified(_, _)
MoveClarified(clarified_skills, lists) ==
    IF clarified_skills = <<>> THEN lists
    ELSE LET skill == Head(clarified_skills)[1]
             experience == Head(clarified_skills)[2]
         IN MoveClarified(
                Tail(clarified_skills),
                IF skill \in Range(lists.missing)
                THEN [missing |-> RemoveFirst(lists.missing, skill),
                      matched |-> Append(lists.matched,
                                         [resume_item |-> experience,
                                          jd_item |-> Title(skill),
                                          similarity |-> 100])]
                ELSE lists)

\* UpdatedPercentage with the total taken after the removals
UpdatedPercentageShrunkTotal(category_data, missing_skills, matched_skills) ==
    LET total == Len(missing_skills) + Len(matched_skills)
    IN IF total > 0 THEN Frac(Len(matched_skills), total)
       ELSE category_data.match_percentage

\* lines 152-160: the total is taken from the argument, not from the lists
\* the removals and clarifications have changed
UpdatedPercentage(category_data, missing_skills, matched_skills) ==
    LET original_total == Len(category_data.missing) + Len(category_data.matched)
        current_matched == Len(matched_skills)
    IN IF original_total > 0 THEN Frac(current_matched, original_total)
       ELSE category_data.match_percentage

\* UpdateCategory moving the clarified skills before it drops the removed
UpdateCategoryClarifyFirst(category_key, category_data, clarifications, removed) ==
    LET moved ==
            IF HasKey(clarifications, category_key)
            THEN MoveClarified(Lookup(clarifications, category_key),
                               [missing |-> category_data.missing,
                                matched |-> category_data.matched])
            ELSE [missing |-> category_data.missing,
                  matched |-> category_data.matched]
        filtered ==
            RemoveEach(moved.missing,
                       SkillsToRemove(category_key, moved.missing, removed))
    IN [category_data EXCEPT
           !.missing = filtered,
           !.matched = moved.matched,
           !.match_percentage =
               UpdatedPercentage(category_data, filtered, moved.matched)]

\* the body of the loop of line 118, for one category
UpdateCategory(category_key, category_data, clarifications, removed) ==
    LET filtered ==
            RemoveEach(category_data.missing,
                       SkillsToRemove(category_key, category_data.missing, removed))
        moved ==
            IF HasKey(clarifications, category_key)
            THEN MoveClarified(Lookup(clarifications, category_key),
                               [missing |-> filtered,
                                matched |-> category_data.matched])
            ELSE [missing |-> filtered, matched |-> category_data.matched]
    IN [category_data EXCEPT
           !.missing = moved.missing,
           !.matched = moved.matched,
           !.match_percentage =
               UpdatedPercentage(category_data, moved.missing, moved.matched)]

\* The objects of one pass of the loop body. The argument's dict holds
\* references to three lists, "arg.missing", "arg.matched" and "arg.unique".
\* Line 119 makes a new dict with the same references; lines 122-123 make
\* the new lists "new.missing" and "new.matched", which remove() and
\* append() write to and which lines 149-150 store in the new dict; the
\* score of lines 157-160 is stored in the new dict too. lists gives the
\* content of every list after the pass.
\* ObjectsAfterUpdate without the copy of the missing list of line 122
ObjectsAfterUpdateSharedMissing(category_key, category_data, clarifications, removed) ==
    LET result == UpdateCategory(category_key, category_data, clarifications,
                                 removed)
        missing_skills == "arg.missing"
        matched_skills == "new.matched"
    IN [lists |->
           [ref \in {"arg.missing", "arg.matched", "arg.unique",
                     "new.missing", "new.matched"} |->
               CASE ref = missing_skills -> result.missing
                 [] ref = matched_skills -> result.matched
                 [] ref = "arg.missing" -> category_data.missing
                 [] ref = "arg.matched" -> category_data.matched
                 [] ref = "arg.unique" -> category_data.unique
                 [] OTHER -> <<>>],
        category_data |->
           [missing |-> "arg.missing", matched |-> "arg.matched",
            unique |-> "arg.unique",
            match_percentage |-> category_data.match_percentage],
        updated_data |->
           [missing |-> missing_skills, matched |-> matched_skills,
            unique |-> "arg.unique",
            match_percentage |-> result.match_percentage]]

ObjectsAfterUpdate(category_key, category_data, clarifications, removed) ==
    LET result == UpdateCategory(category_key, category_data, clarifications,
                                 removed)
        missing_skills == "new.missing"
        matched_skills == "new.matched"
    IN [lists |->
           [ref \in {"arg.missing", "arg.matched", "arg.unique",
                     "new.missing", "new.matched"} |->
               CASE ref = missing_skills -> result.missing
                 [] ref = matched_skills -> result.matched
                 [] ref = "arg.missing" -> category_data.missing
                 [] ref = "arg.matched" -> category_data.matched
                 [] ref = "arg.unique" -> category_data.unique
                 [] OTHER -> <<>>],
        category_data |->
           [missing |-> "arg.missing", matched |-> "arg.matched",
            unique |-> "arg.unique",
            match_percentage |-> category_data.match_percentage],
        updated_data |->
           [missing |-> missing_skills, matched |-> matched_skills,
            unique |-> "arg.unique",
            match_percentage |-> result.match_percentage]]

\* the value of a dict whose list fields are references
Deref(objects, dict) ==
    [missing |-> objects.lists[dict.missing],
     matched |-> objects.lists[dict.matched],
     unique |-> objects.lists[dict.unique],
     match_percentage |-> dict.match_percentage]

\* the argument as the caller sees it after the call
ArgumentAfterUpdate(analysis, clarifications, removed) ==
    [category_key \in DOMAIN analysis |->
        LET objects == ObjectsAfterUpdate(category_key, analysis[category_key],
                                          clarifications, removed)
        IN Deref(objects, objects.category_data)]

UpdateAnalysisWithClarifications(analysis, clarifications, removed) ==
    [category_key \in DOMAIN analysis |->
        UpdateCategory(category_key, analysis[category_key], clarifications,
                       removed)]

---------------------------------------------------------------------------
(* The arguments update_analysis_with_clarifications is run on.            *)

\* the evidence text a user types for a clarified skill
Evidence == <<"e", "v">>

\* the alignments the analyzer returns at the threshold the app calls it with
AnalyzerResults ==
    {AnalyzeCategorizedAlignment(CategoryMapping(f, "sparse"),
                                 CategoryMapping(g, "sparse"), sim,
                                 DefaultThreshold) :
        f \in Assignments, g \in JdAssignments, sim \in Similarities}

RemovalKeys == {SkillKey(c, skill) : c \in PopulatedCats, skill \in Items}

\* per category the clarified skills in the order they were entered
ClarifiedOrders ==
    {order \in [Cats -> DistinctSeqsUpTo(Items, Cardinality(Items))] :
        \A c \in Cats \ PopulatedCats : order[c] = <<>>}

\* the dict of the categories that have a clarified skill
ClarificationDict(order) ==
    LET kept == AtIndices(CategoryOrder,
                          {i \in DOMAIN CategoryOrder :
                              order[CategoryOrder[i]] # <<>>})
    IN [n \in DOMAIN kept |->
           <<kept[n],
             [m \in DOMAIN order[kept[n]] |-> <<order[kept[n]][m], Evidence>>]>>]

\* removals and clarifications, MaxCorrections in all at most
Corrections ==
    {cr \in (SUBSET RemovalKeys) \X ClarifiedOrders :
        Cardinality(cr[1]) + TotalLen(cr[2], Cats) <= MaxCorrections}

---------------------------------------------------------------------------
(* SpecReconcile: update_analysis_with_clarifications on every alignment   *)
(* the analyzer returns, and once more on its own return value.            *)

InitReconcile ==
    /\ pc = "call"
    /\ original_analysis \in AnalyzerResults
    /\ \E cr \in Corrections :
          /\ removed_skills = cr[1]
          /\ user_clarifications = ClarificationDict(cr[2])
    /\ updated_analysis = Idle
    /\ reapplied_analysis = Idle
    /\ ExtractIdle /\ AlignIdle /\ SessionIdle /\ CacheIdle

Reconcile ==
    /\ pc = "call"
    /\ updated_analysis' =
           UpdateAnalysisWithClarifications(original_analysis,
                                            user_clarifications, removed_skills)
    /\ original_analysis' =
           ArgumentAfterUpdate(original_analysis, user_clarifications,
                               removed_skills)
    /\ pc' = "returned"
    /\ UNCHANGED <<user_clarifications, removed_skills,
                   reapplied_analysis, extractVars, alignVars, sessionVars,
                   cacheVars>>

ReconcileAgain ==
    /\ pc = "returned"
    /\ reapplied_analysis' =
           UpdateAnalysisWithClarifications(updated_analysis,
                                            user_clarifications, removed_skills)
    /\ updated_analysis' =
           ArgumentAfterUpdate(updated_analysis, user_clarifications,
                               removed_skills)
    /\ pc' = "reapplied"
    /\ UNCHANGED <<original_analysis, user_clarifications, removed_skills,
                   extractVars, alignVars, sessionVars, cacheVars>>

NextReconcile == Reconcile \/ ReconcileAgain

SpecReconcile == InitReconcile /\ [][NextReconcile]_vars

\* the skills clarified for a category
ClarifiedSkills(category) ==
    IF HasKey(user_clarifications, category)
    THEN {pair[1] : pair \in Range(Lookup(user_clarifications, category))}
    ELSE {}

\* the missing items of a category of the original alignment that the
\* removal set names
RemovedMissing(category) ==
    {skill \in Range(original_analysis[category].missing) :
        SkillKey(category, skill) \in removed_skills}

\* the corrections of a category are as C1 takes them: the clarified skills
\* are missing items that are not removed, and the category has requirements
WithinMissing(category) ==
    /\ ClarifiedSkills(category)
           \subseteq Range(original_analysis[category].missing)
                        \ RemovedMissing(category)
    /\ Len(original_analysis[category].matched)
           + Len(original_analysis[category].missing) > 0

\* C1: after removing any R of the missing list N0 and clarifying any C of
\* N0 \ R, the score of the category is (|M0| + |C|) / (|M0| + |N0|), whatever
\* R is.
C1_DenominatorInvariant ==
    pc \in {"returned", "reapplied"} =>
        \A category \in Cats :
            WithinMissing(category) =>
                updated_analysis[category].match_percentage
                    = Frac(Len(original_analysis[category].matched)
                               + Cardinality(ClarifiedSkills(category)),
                           Len(original_analysis[category].matched)
                               + Len(original_analysis[category].missing))

\* C1 witness: a reconcile has returned for a category in which one missing
\* item was removed and another clarified.
C1_Witness ==
    /\ pc = "returned"
    /\ \E category \in Cats :
          /\ WithinMissing(category)
          /\ RemovedMissing(category) # {}
          /\ ClarifiedSkills(category) # {}
          /\ Len(updated_analysis[category].matched)
                = Len(original_analysis[category].matched) + 1

\* the number of entries of a list equal to x
Count(x, list) == Cardinality({i \in DOMAIN list : list[i] = x})

\* the clarifications of a category, as (skill, evidence) pairs in the order
\* of the dict
ClarifiedPairs(category) ==
    IF HasKey(user_clarifications, category)
    THEN Lookup(user_clarifications, category) ELSE <<>>

C22_NoCorrectionsIsIdentity ==
    (pc \in {"returned", "reapplied"}
        /\ user_clarifications = <<>> /\ removed_skills = {}) =>
        \A category \in Cats :
            /\ updated_analysis[category].match_percentage
                  = original_analysis[category].match_percentage
            /\ updated_analysis[category].matched
                  = original_analysis[category].matched
            /\ updated_analysis[category].missing
                  = original_analysis[category].missing

\* C26: removals are scoped to their category. The key category + "_" + item
\* is different for different (category, item) pairs of the four
\* categories; a missing skill of a category whose own key is not in
\* removed_skills and that is not clarified there stays in the missing list
\* with all its entries, whatever keys of other categories are removed; and
\* the number of match records, hence the score, of a category depends on
\* the removed keys of that category only.
C26_RemovalsScopedToCategory ==
    /\ \A c1 \in Cats, c2 \in Cats :
          \A s1 \in Requirements, s2 \in Requirements :
              SkillKey(c1, s1) = SkillKey(c2, s2) => (c1 = c2 /\ s1 = s2)
    /\ pc \in {"returned", "reapplied"} =>
          \A category \in Cats :
              LET before == original_analysis[category]
                  after == updated_analysis[category]
                  pairs == ClarifiedPairs(category)
                  own(skill) == KeyChars(category) \o <<"_">> \o skill
                  moved == {n \in DOMAIN pairs :
                               /\ pairs[n][1] \in Range(before.missing)
                               /\ own(pairs[n][1]) \notin removed_skills}
              IN /\ \A skill \in Range(before.missing) :
                       (/\ own(skill) \notin removed_skills
                        /\ \A n \in DOMAIN pairs : pairs[n][1] # skill)
                           => Count(skill, after.missing)
                                  = Count(skill, before.missing)
                 /\ Len(after.matched)
                        = Len(before.matched) + Cardinality(moved)
                 /\ Len(before.matched) + Len(before.missing) > 0 =>
                        after.match_percentage
                            = Frac(Len(before.matched) + Cardinality(moved),
                                   Len(before.matched) + Len(before.missing))

\* C26 witness: the same skill is missing in two categories, it is removed
\* in the first and clarified in the second; the reconcile drops it from the
\* first category's missing list only and gives the second its record.
C26_Witness ==
    /\ pc = "returned"
    /\ \E skill \in Items :
          /\ skill \in Range(original_analysis[ProfessionalSkills].missing)
          /\ skill \in Range(original_analysis[SoftSkills].missing)
          /\ removed_skills = {SkillKey(ProfessionalSkills, skill)}
          /\ ClarifiedPairs(SoftSkills) = <<<<skill, Evidence>>>>
          /\ skill \notin Range(updated_analysis[ProfessionalSkills].missing)
          /\ Len(updated_analysis[SoftSkills].matched) = 1
          /\ updated_analysis[SoftSkills].match_percentage = <<1, 1>>

\* C25: update_analysis_with_clarifications does not modify its argument:
\* after each call every category of the argument has the missing, matched
\* and unique lists and the score it had before, and the unique list of the
\* result is the argument's.
C25_InputNotModified ==
    [][/\ (pc = "call" /\ pc' = "returned") =>
             /\ original_analysis' = original_analysis
             /\ \A category \in Cats :
                    updated_analysis'[category].unique
                        = original_analysis[category].unique
       /\ (pc = "returned" /\ pc' = "reapplied") =>
             /\ updated_analysis' = updated_analysis
             /\ \A category \in Cats :
                    reapplied_analysis'[category].unique
                        = updated_analysis[category].unique]_vars

\* C25 witness: a call has returned that dropped a removed skill from a
\* missing list and appended a synthetic record to a matched list, on an
\* argument with a unique item.
C25_Witness ==
    /\ pc = "returned"
    /\ \E category \in Cats :
          Len(updated_analysis[category].missing)
              < Len(original_analysis[category].missing)
    /\ \E category \in Cats :
          Len(updated_analysis[category].matched)
              > Len(original_analysis[category].matched)
    /\ \E category \in Cats : original_analysis[category].unique # <<>>
    /\ removed_skills # {}
    /\ user_clarifications # <<>>

\* C23: after the reconcile no skill for which a synthetic record was
\* appended to matched is still in the missing list of its category, also
\* when the alignment's missing list holds an entry more than once.
C23_ClarifiedLeavesMissing ==
    pc \in {"returned", "reapplied"} =>
        \A category \in Cats :
            LET before == original_analysis[category]
                after == updated_analysis[category]
                pairs == ClarifiedPairs(category)
            IN \A n \in DOMAIN pairs :
                  (\E m \in (Len(before.matched) + 1)..Len(after.matched) :
                      after.matched[m] = [resume_item |-> pairs[n][2],
                                          jd_item |-> Title(pairs[n][1]),
                                          similarity |-> 100])
                      => pairs[n][1] \notin Range(after.missing)

\* C2: applying the reconcile to its own result with the same clarifications
\* and removals gives that result again, in every category.
C2_Idempotent ==
    pc = "reapplied" =>
        \A category \in Cats :
            /\ reapplied_analysis[category].missing
                  = updated_analysis[category].missing
            /\ reapplied_analysis[category].matched
                  = updated_analysis[category].matched
            /\ reapplied_analysis[category].match_percentage
                  = updated_analysis[category].match_percentage

---------------------------------------------------------------------------
(* The Streamlit session of app.py. One step is one interaction of the     *)
(* user together with the script runs it causes: the handler, the rerun it *)
(* asks for with st.rerun(), and the rendering of the page, at the end of  *)
(* which the state of the widgets that were not rendered is dropped.       *)

\* the texts of the documents
SampleResumeText == "contents of sample_resume.txt"
SampleJdText == "contents of sample_jd.txt"
UploadedPdfText == "text of the pages of the uploaded PDF"
PastedJdText == "job description typed into the text area"
PdfErrorText == "Error reading PDF file: EOF marker not found"

\* the messages of st.sidebar.error
NoError == ""
SampleFilesNotFound == "Sample files not found."
ProvideBoth == "Please provide both a resume and a job description."

\* the file in the uploader: none, a PDF with text, a PDF whose pages hold
\* no text, a file pypdf cannot read
UploadedFiles == {"none", "readable", "blank", "corrupt"}

\* parser.py 3-14: the text of the pages, or the message of the exception
\* as the returned string
ExtractTextFromPdf(file_obj) ==
    CASE file_obj = "readable" -> UploadedPdfText
      [] file_obj = "blank" -> ""
      [] file_obj = "corrupt" -> PdfErrorText

\* the four categories with the given lists under professional_skills and
\* soft_skills
CategoriesJson(professional, soft) ==
    JObj(<< <<EducationCertifications, JStrList(<<>>)>>,
            <<ProfessionalSkills, JStrList(professional)>>,
            <<SoftSkills, JStrList(soft)>>,
            <<Experience, JStrList(<<>>)>> >>)

\* what the text-generation collaborator answers for each text of the
\* session; the text of an error message holds no requirement
GenerationFor(text) ==
    [kind |-> "json", fenced |-> TRUE,
     body |->
        CASE text = SampleResumeText -> CategoriesJson(<< <<"B">> >>, <<>>)
          [] text = UploadedPdfText ->
                 CategoriesJson(<< <<"A">> >>, << <<"a">> >>)
          [] text = SampleJdText -> CategoriesJson(<< <<"A">>, <<"b">> >>, <<>>)
          [] text = PastedJdText -> CategoriesJson(<<>>, << <<"a">> >>)
          [] OTHER -> CategoriesJson(<<>>, <<>>)]

JdTexts == {"", SampleJdText, PastedJdText}

\* the scores of the embedding model of the session: the two items of its
\* documents are below the threshold, or above it
SessionSimilarities ==
    {sim \in Similarities :
        /\ \A x, y \in Items : sim[x, y] \in {30, 99, 100}
        /\ \A x \in Items, y \in Requirements \ Items : sim[x, y] = 30}

\* what the user types as evidence: nothing, a blank, a text
EvidenceTexts == {<<>>, <<" ">>, Evidence}

\* str.strip()
Strip(s) ==
    LET solid == {i \in DOMAIN s : s[i] # " "}
    IN IF solid = {} THEN <<>>
       ELSE SubSeq(s, CHOOSE i \in solid : \A j \in solid : i <= j,
                   SetMax(solid))

\* lines 490-498: the categories that have missing items, with the items
AllMissingSkills(analysis) ==
    LET kept == AtIndices(CategoryOrder,
                          {i \in DOMAIN CategoryOrder :
                              analysis[CategoryOrder[i]].missing # <<>>})
    IN [n \in DOMAIN kept |-> <<kept[n], analysis[kept[n]].missing>>]

\* SectionShown without the test of skill_clarifications_complete
SectionShownAfterApply(complete, analysis, clarified) ==
    complete /\ AllMissingSkills(analysis) # <<>>

\* line 503, inside the block of line 385: the clarification section is
\* rendered
SectionShown(complete, analysis, clarified) ==
    complete /\ ~clarified /\ AllMissingSkills(analysis) # <<>>

\* lines 521-522
RemainingSkills(category_key, skills, removed) ==
    AtIndices(skills,
              {i \in DOMAIN skills : SkillKey(category_key, skills[i]) \notin removed})

\* RenderedRows without the filter of lines 521-522
RenderedRowsIgnoringRemovals(complete, analysis, clarified, removed) ==
    IF SectionShown(complete, analysis, clarified)
    THEN UNION {{SkillKey(c, skill) : skill \in Range(analysis[c].missing)} :
                c \in Cats}
    ELSE {}

\* the skill keys whose row of buttons is rendered (lines 527-554)
RenderedRows(complete, analysis, clarified, removed) ==
    IF SectionShown(complete, analysis, clarified)
    THEN UNION {{SkillKey(c, skill) :
                    skill \in Range(RemainingSkills(c, analysis[c].missing,
                                                    removed))} :
                c \in Cats}
    ELSE {}

\* the skill keys whose text_input is rendered (lines 557-564)
RenderedInputs(complete, analysis, clarified, removed, confirmed) ==
    RenderedRows(complete, analysis, clarified, removed) \cap confirmed

\* the state of the text_input widgets after a run: the widgets that were
\* rendered keep their text, a new one holds the empty string, the others
\* are dropped
WidgetTexts(texts, rendered) ==
    [key \in rendered |-> IF key \in DOMAIN texts THEN texts[key] ELSE <<>>]

\* CollectClarifications testing the text without strip()
CollectClarificationsUnstripped(analysis, removed, confirmed, texts) ==
    LET all_missing_skills == AllMissingSkills(analysis)
        category_clarifications(n) ==
            LET category_key == all_missing_skills[n][1]
                remaining_skills ==
                    RemainingSkills(category_key, all_missing_skills[n][2], removed)
                filled ==
                    AtIndices(remaining_skills,
                              {i \in DOMAIN remaining_skills :
                                  LET skill_key ==
                                          SkillKey(category_key, remaining_skills[i])
                                  IN /\ skill_key \in confirmed
                                     /\ texts[skill_key] # <<>>})
            IN [m \in DOMAIN filled |->
                   <<filled[m], texts[SkillKey(category_key, filled[m])]>>]
        kept == AtIndices([n \in DOMAIN all_missing_skills |-> n],
                          {n \in DOMAIN all_missing_skills :
                              category_clarifications(n) # <<>>})
    IN [k \in DOMAIN kept |->
           <<all_missing_skills[kept[k]][1], category_clarifications(kept[k])>>]

\* lines 517-569: the dict the section builds from the text inputs
CollectClarifications(analysis, removed, confirmed, texts) ==
    LET all_missing_skills == AllMissingSkills(analysis)
        category_clarifications(n) ==
            LET category_key == all_missing_skills[n][1]
                remaining_skills ==
                    RemainingSkills(category_key, all_missing_skills[n][2], removed)
                filled ==
                    AtIndices(remaining_skills,
                              {i \in DOMAIN remaining_skills :
                                  LET skill_key ==
                                          SkillKey(category_key, remaining_skills[i])
                                  IN /\ skill_key \in confirmed
                                     /\ Strip(texts[skill_key]) # <<>>})
            IN [m \in DOMAIN filled |->
                   <<filled[m], texts[SkillKey(category_key, filled[m])]>>]
        kept == AtIndices([n \in DOMAIN all_missing_skills |-> n],
                          {n \in DOMAIN all_missing_skills :
                              category_clarifications(n) # <<>>})
    IN [k \in DOMAIN kept |->
           <<all_missing_skills[kept[k]][1], category_clarifications(kept[k])>>]

\* lines 595-616: what the "Updated Analysis" section computes; line 607
\* raises KeyError for a clarified category that has no missing item in the
\* analysis on display, and the run stops before line 613
UpdatedAnalysisShown(complete, analysis, clarified, clarifications, removed) ==
    IF complete /\ clarified
    THEN IF Keys(clarifications) \subseteq Keys(AllMissingSkills(analysis))
         THEN UpdateAnalysisWithClarifications(analysis, clarifications, removed)
         ELSE Idle
    ELSE Idle

---------------------------------------------------------------------------
(* Spec: the session.                                                      *)

\* what a session does not touch
sessionFixed == <<pc, response, extracted, similarity, threshold, results,
                  encoded, encode_raised, original_analysis,
                  reapplied_analysis, cacheVars>>

\* lines 166-180; removed_skills, confirmed_skills and user_clarifications
\* are absent from st.session_state until they are first written, and every
\* read of them defaults to the empty set / dict
Init ==
    /\ pc = "session"
    /\ ExtractIdle /\ CacheIdle
    /\ similarity \in SessionSimilarities
    /\ threshold = DefaultThreshold
    /\ resume_categories = Idle /\ jd_categories = Idle
    /\ results = Idle /\ encoded = {} /\ encode_raised = "none"
    /\ original_analysis = Idle /\ reapplied_analysis = Idle
    /\ user_clarifications = <<>>
    /\ removed_skills = {}
    /\ confirmed_skills = {}
    /\ updated_analysis = Idle
    /\ uploaded_resume = "none"
    /\ jd_text = ""
    /\ resume_text_from_sample = ""
    /\ resume_text = ""
    /\ analysis_complete = FALSE
    /\ categorized_analysis = Idle
    /\ skill_clarifications_complete = FALSE
    /\ improvements_generated = FALSE
    /\ evidence = WidgetTexts(Idle, {})
    /\ sidebar_error = NoError

\* the rest of the script run after the handler: the page is rendered from
\* the session state the handler left; texts is what the text inputs held
\* when the run began
Render(texts) ==
    /\ evidence' =
           WidgetTexts(texts,
                       RenderedInputs(analysis_complete', categorized_analysis',
                                      skill_clarifications_complete',
                                      removed_skills', confirmed_skills'))
    /\ updated_analysis' =
           UpdatedAnalysisShown(analysis_complete', categorized_analysis',
                                skill_clarifications_complete',
                                user_clarifications', removed_skills')

\* line 234: a file is put into the uploader, or taken out of it
UploadResume(file_obj) ==
    /\ pc = "session"
    /\ file_obj # uploaded_resume
    /\ uploaded_resume' = file_obj
    /\ sidebar_error' = NoError
    /\ UNCHANGED <<jd_text, resume_text_from_sample, resume_text,
                   analysis_complete, categorized_analysis, resume_categories,
                   jd_categories, skill_clarifications_complete,
                   improvements_generated, confirmed_skills, removed_skills,
                   user_clarifications, sessionFixed>>
    /\ Render(evidence)

\* lines 235-236: the text area is edited
EditJD(text) ==
    /\ pc = "session"
    /\ text # jd_text
    /\ jd_text' = text
    /\ sidebar_error' = NoError
    /\ UNCHANGED <<uploaded_resume, resume_text_from_sample, resume_text,
                   analysis_complete, categorized_analysis, resume_categories,
                   jd_categories, skill_clarifications_complete,
                   improvements_generated, confirmed_skills, removed_skills,
                   user_clarifications, sessionFixed>>
    /\ Render(evidence)

\* lines 216-227: both sample files are read, or the second open or the
\* first raises FileNotFoundError
LoadSampleData(found) ==
    /\ pc = "session"
    /\ CASE found = "both" ->
              /\ resume_text_from_sample' = SampleResumeText
              /\ jd_text' = SampleJdText
              /\ analysis_complete' = FALSE
              /\ skill_clarifications_complete' = FALSE
              /\ sidebar_error' = NoError
         [] found = "resume" ->
              /\ resume_text_from_sample' = SampleResumeText
              /\ sidebar_error' = SampleFilesNotFound
              /\ UNCHANGED <<jd_text, analysis_complete,
                             skill_clarifications_complete>>
         [] found = "none" ->
              /\ sidebar_error' = SampleFilesNotFound
              /\ UNCHANGED <<resume_text_from_sample, jd_text,
                             analysis_complete, skill_clarifications_complete>>
    /\ UNCHANGED <<uploaded_resume, resume_text, categorized_analysis,
                   resume_categories, jd_categories, improvements_generated,
                   confirmed_skills, removed_skills, user_clarifications,
                   sessionFixed>>
    /\ Render(evidence)

\* lines 239-243
ResumeTextToAnalyze ==
    IF uploaded_resume # "none" THEN ExtractTextFromPdf(uploaded_resume)
    ELSE resume_text_from_sample

\* lines 238-269
AnalyzeResume ==
    /\ pc = "session"
    /\ IF ResumeTextToAnalyze # "" /\ jd_text # ""
       THEN /\ improvements_generated' = FALSE
            /\ skill_clarifications_complete' = FALSE
            /\ resume_text' = ResumeTextToAnalyze
            /\ resume_categories' =
                   ExtractAndCategorize(GenerationFor(ResumeTextToAnalyze))
            /\ jd_categories' = ExtractAndCategorize(GenerationFor(jd_text))
            /\ categorized_analysis' =
                   AnalyzeCategorizedAlignment(resume_categories', jd_categories',
                                               similarity, threshold)
            /\ analysis_complete' = TRUE
            /\ sidebar_error' = NoError
       ELSE /\ sidebar_error' = ProvideBoth
            /\ UNCHANGED <<improvements_generated,
                           skill_clarifications_complete, resume_text,
                           resume_categories, jd_categories,
                           categorized_analysis, analysis_complete>>
    /\ UNCHANGED <<uploaded_resume, jd_text, resume_text_from_sample,
                   confirmed_skills, removed_skills, user_clarifications,
                   sessionFixed>>
    /\ Render(evidence)

\* the rows of buttons on the page
Rows ==
    RenderedRows(analysis_complete, categorized_analysis,
                 skill_clarifications_complete, removed_skills)

\* Remove without lines 543-544
RemoveKeepsConfirmed(skill_key) ==
    /\ pc = "session"
    /\ skill_key \in Rows
    /\ removed_skills' = removed_skills \cup {skill_key}
    /\ sidebar_error' = NoError
    /\ UNCHANGED <<uploaded_resume, jd_text, resume_text_from_sample,
                   resume_text, analysis_complete, categorized_analysis,
                   resume_categories, jd_categories,
                   skill_clarifications_complete, improvements_generated,
                   confirmed_skills, user_clarifications, sessionFixed>>
    /\ Render(evidence)

\* lines 541-545
Remove(skill_key) ==
    /\ pc = "session"
    /\ skill_key \in Rows
    /\ removed_skills' = removed_skills \cup {skill_key}
    /\ confirmed_skills' = confirmed_skills \ {skill_key}
    /\ sidebar_error' = NoError
    /\ UNCHANGED <<uploaded_resume, jd_text, resume_text_from_sample,
                   resume_text, analysis_complete, categorized_analysis,
                   resume_categories, jd_categories,
                   skill_clarifications_complete, improvements_generated,
                   user_clarifications, sessionFixed>>
    /\ Render(evidence)

\* lines 549-554
Confirm(skill_key) ==
    /\ pc = "session"
    /\ skill_key \in Rows \ confirmed_skills
    /\ confirmed_skills' = confirmed_skills \cup {skill_key}
    /\ sidebar_error' = NoError
    /\ UNCHANGED <<uploaded_resume, jd_text, resume_text_from_sample,
                   resume_text, analysis_complete, categorized_analysis,
                   resume_categories, jd_categories,
                   skill_clarifications_complete, improvements_generated,
                   removed_skills, user_clarifications, sessionFixed>>
    /\ Render(evidence)

\* lines 559-564: the user types into the text input of a confirmed skill
EditEvidence(skill_key, text) ==
    /\ pc = "session"
    /\ skill_key \in DOMAIN evidence
    /\ text # evidence[skill_key]
    /\ sidebar_error' = NoError
    /\ UNCHANGED <<uploaded_resume, jd_text, resume_text_from_sample,
                   resume_text, analysis_complete, categorized_analysis,
                   resume_categories, jd_categories,
                   skill_clarifications_complete, improvements_generated,
                   confirmed_skills, removed_skills, user_clarifications,
                   sessionFixed>>
    /\ Render([evidence EXCEPT ![skill_key] = text])

\* lines 572-587
ResetRemovals ==
    /\ pc = "session"
    /\ SectionShown(analysis_complete, categorized_analysis,
                    skill_clarifications_complete)
    /\ removed_skills # {}
    /\ removed_skills' = {}
    /\ sidebar_error' = NoError
    /\ UNCHANGED <<uploaded_resume, jd_text, resume_text_from_sample,
                   resume_text, analysis_complete, categorized_analysis,
                   resume_categories, jd_categories,
                   skill_clarifications_complete, improvements_generated,
                   confirmed_skills, user_clarifications, sessionFixed>>
    /\ Render(evidence)

\* lines 589-593
ApplyClarifications ==
    /\ pc = "session"
    /\ SectionShown(analysis_complete, categorized_analysis,
                    skill_clarifications_complete)
    /\ user_clarifications' =
           CollectClarifications(categorized_analysis, removed_skills,
                                 confirmed_skills, evidence)
    /\ skill_clarifications_complete' = TRUE
    /\ sidebar_error' = NoError
    /\ UNCHANGED <<uploaded_resume, jd_text, resume_text_from_sample,
                   resume_text, analysis_complete, categorized_analysis,
                   resume_categories, jd_categories, improvements_generated,
                   confirmed_skills, removed_skills, sessionFixed>>
    /\ Render(evidence)

\* lines 641-661; the button is reached only if the "Updated Analysis"
\* section above it did not raise
GeneratePlan ==
    /\ pc = "session"
    /\ analysis_complete /\ skill_clarifications_complete
    /\ updated_analysis # Idle
    /\ improvements_generated' = TRUE
    /\ sidebar_error' = NoError
    /\ UNCHANGED <<uploaded_resume, jd_text, resume_text_from_sample,
                   resume_text, analysis_complete, categorized_analysis,
                   resume_categories, jd_categories,
                   skill_clarifications_complete, confirmed_skills,
                   removed_skills, user_clarifications, sessionFixed>>
    /\ Render(evidence)

\* lines 694-712
GenerateOptimization ==
    /\ pc = "session"
    /\ analysis_complete /\ ~skill_clarifications_complete
    /\ AllMissingSkills(categorized_analysis) = <<>>
    /\ improvements_generated' = TRUE
    /\ skill_clarifications_complete' = TRUE
    /\ sidebar_error' = NoError
    /\ UNCHANGED <<uploaded_resume, jd_text, resume_text_from_sample,
                   resume_text, analysis_complete, categorized_analysis,
                   resume_categories, jd_categories, confirmed_skills,
                   removed_skills, user_clarifications, sessionFixed>>
    /\ Render(evidence)

\* every skill key of the session's documents
SkillKeys == {SkillKey(c, skill) : c \in Cats, skill \in Items}

Next ==
    \/ \E file_obj \in UploadedFiles : UploadResume(file_obj)
    \/ \E text \in JdTexts : EditJD(text)
    \/ \E found \in {"both", "resume", "none"} : LoadSampleData(found)
    \/ AnalyzeResume
    \/ \E skill_key \in SkillKeys : Remove(skill_key)
    \/ \E skill_key \in SkillKeys : Confirm(skill_key)
    \/ \E skill_key \in SkillKeys, text \in EvidenceTexts :
          EditEvidence(skill_key, text)
    \/ ResetRemovals
    \/ ApplyClarifications
    \/ GeneratePlan
    \/ GenerateOptimization

Spec == Init /\ [][Next]_vars

\* the Analyze step of a run that has a resume text and a job description
AnalysisStarts ==
    AnalyzeResume /\ ResumeTextToAnalyze # "" /\ jd_text # ""

\* C9: when a new analysis run starts (Analyze with a non-empty resume and
\* job description), removed_skills, confirmed_skills and
\* user_clarifications are reset to empty.
C9_AnalyzeResetsCorrections ==
    [][AnalysisStarts =>
          /\ removed_skills' = {}
          /\ confirmed_skills' = {}
          /\ user_clarifications' = <<>>]_vars

\* C10: when the uploaded PDF cannot be read, the Analyze action does not
\* proceed: no extraction or alignment result is stored for it,
\* analysis_complete is not set by it, and the user is asked for a document.
C10_IngestFailureStopsAnalyze ==
    [][(AnalyzeResume /\ uploaded_resume = "corrupt") =>
          /\ UNCHANGED <<analysis_complete, categorized_analysis,
                         resume_categories, jd_categories, resume_text>>
          /\ sidebar_error' = ProvideBoth]_vars


\* C13: in every reachable session state no skill key is both in
\* removed_skills and in confirmed_skills (so removing a confirmed item
\* clears its confirmation in the same step).
C13_RemovedNotConfirmed ==
    pc = "session" => removed_skills \cap confirmed_skills = {}

\* C13 witness: the clarification section is on the page with one skill
\* removed and another confirmed.
C13_Witness ==
    /\ pc = "session"
    /\ SectionShown(analysis_complete, categorized_analysis,
                    skill_clarifications_complete)
    /\ removed_skills # {}
    /\ confirmed_skills # {}


\* the skill keys of the missing list the reconcile on display has returned
ReconciledMissingKeys ==
    IF updated_analysis = Idle THEN {}
    ELSE UNION {{SkillKey(c, skill) :
                    skill \in Range(updated_analysis[c].missing)} : c \in Cats}

\* C18: once a missing item is removed, no later user action of the session
\* takes it out of the removed state or returns it to the review list or to
\* the reconciled missing list.
C18_RemovedIsTerminal ==
    [][\A skill_key \in removed_skills :
          /\ skill_key \in removed_skills'
          /\ skill_key \notin Rows'
          /\ skill_key \notin ReconciledMissingKeys']_vars

\* C18 as amended: a removed item stays removed, out of the review list and
\* out of the reconciled missing list under every user action except
\* Reset All Removals.
C18_RemovedUntilReset ==
    [][ResetRemovals
          \/ \A skill_key \in removed_skills :
                /\ skill_key \in removed_skills'
                /\ skill_key \notin Rows'
                /\ skill_key \notin ReconciledMissingKeys']_vars

\* C18 witness: a missing skill of the analysis on display was removed, the
\* clarifications were applied and the reconciled result is shown.
C18_Witness ==
    /\ pc = "session"
    /\ updated_analysis # Idle
    /\ \E c \in Cats :
          \E skill \in Range(categorized_analysis[c].missing) :
              /\ SkillKey(c, skill) \in removed_skills
              /\ skill \notin Range(updated_analysis[c].missing)

\* the skills of a category whose row is on the page, confirmed, with an
\* evidence text that is empty or blank / that is not
PendingEvidence(c) ==
    {skill \in Range(categorized_analysis[c].missing) :
        /\ SkillKey(c, skill) \in Rows \cap confirmed_skills
        /\ \A n \in DOMAIN evidence[SkillKey(c, skill)] :
               evidence[SkillKey(c, skill)][n] = " "}
WithEvidence(c) ==
    {skill \in Range(categorized_analysis[c].missing) :
        /\ SkillKey(c, skill) \in Rows \cap confirmed_skills
        /\ \E n \in DOMAIN evidence[SkillKey(c, skill)] :
               evidence[SkillKey(c, skill)][n] # " "}

\* C19: a confirmed item whose evidence text is empty or only blanks is not
\* put into the applied clarification set: after Apply it is still missing
\* and adds nothing to the matched list or to the score.
C19_EvidenceRequired ==
    [][ApplyClarifications =>
          \A c \in Cats :
              LET applied == IF HasKey(user_clarifications', c)
                             THEN Lookup(user_clarifications', c) ELSE <<>>
                  before == categorized_analysis[c]
                  after == updated_analysis'[c]
              IN /\ \A skill \in PendingEvidence(c) :
                       /\ \A n \in DOMAIN applied : applied[n][1] # skill
                       /\ skill \in Range(after.missing)
                       /\ \A m \in DOMAIN after.matched :
                              after.matched[m].jd_item = Title(skill)
                                  => after.matched[m] \in Range(before.matched)
                 /\ Len(after.matched)
                       = Len(before.matched) + Cardinality(WithEvidence(c))
                 /\ Len(before.matched) + Len(before.missing) > 0 =>
                       after.match_percentage
                           = Frac(Len(before.matched)
                                      + Cardinality(WithEvidence(c)),
                                  Len(before.matched) + Len(before.missing))]_vars

\* C19 witness: the clarifications were applied while a skill was confirmed
\* and not removed, and the reconciled result still lists it as missing.
C19_Witness ==
    /\ pc = "session"
    /\ skill_clarifications_complete
    /\ updated_analysis # Idle
    /\ \E c \in Cats :
          \E skill \in Range(updated_analysis[c].missing) :
              SkillKey(c, skill) \in confirmed_skills \ removed_skills

\* C20: while skill_clarifications_complete is true, no confirm, remove,
\* reset-removals or evidence-edit step can be taken, and in every step that
\* does not start a new analysis run user_clarifications and removed_skills
\* keep their values and the reconciled result on display stays the same.
C20_ImmutableOnceApplied ==
    [][skill_clarifications_complete =>
          /\ \A skill_key \in SkillKeys :
                /\ ~Remove(skill_key)
                /\ ~Confirm(skill_key)
                /\ \A text \in EvidenceTexts : ~EditEvidence(skill_key, text)
          /\ ~ResetRemovals
          /\ ~AnalysisStarts =>
                /\ user_clarifications' = user_clarifications
                /\ removed_skills' = removed_skills
                /\ (skill_clarifications_complete' /\ analysis_complete') =>
                       updated_analysis' = updated_analysis]_vars

\* C20 witness: the clarifications were applied with a removal and a
\* clarification in them, and the action plan was generated from the
\* reconciled result on display.
C20_Witness ==
    /\ pc = "session"
    /\ skill_clarifications_complete
    /\ improvements_generated
    /\ updated_analysis # Idle
    /\ user_clarifications # <<>>
    /\ removed_skills # {}

---------------------------------------------------------------------------
(* SpecCache: the two functions under @st.cache_data (analyzer.py 30 and   *)
(* 81). A call whose arguments are in the cache returns the stored value   *)
(* without running the body; otherwise the body runs and its return value  *)
(* is stored; a body that raises stores nothing.                           *)

MaxRuns == 2       \* most runs of the body of one call that reach encode

\* the argument tuples (text, is_job_description) of the extraction
ExtractArgs ==
    {<<SampleResumeText, FALSE>>, <<SampleJdText, TRUE>>, <<SampleJdText, FALSE>>}

\* the argument tuples (resume_categories, jd_categories, threshold) of the
\* alignment
AlignArgs ==
    {<<ExtractAndCategorize(GenerationFor(resume)),
       ExtractAndCategorize(GenerationFor(jd)), DefaultThreshold>> :
        resume \in {SampleResumeText, UploadedPdfText},
        jd \in {SampleJdText, PastedJdText}}

\* the cache with the value stored under the key
Put(cache, key, value) ==
    [k \in DOMAIN cache \cup {key} |-> IF k = key THEN value ELSE cache[k]]

EmptyCache == [k \in {} |-> Idle]

InitCache ==
    /\ pc = "cache"
    /\ extract_cache = EmptyCache
    /\ align_cache = EmptyCache
    /\ generate_runs = [args \in ExtractArgs |-> 0]
    /\ encode_runs = [args \in AlignArgs |-> 0]
    /\ similarity \in SessionSimilarities
    /\ threshold = DefaultThreshold
    /\ resume_categories = Idle /\ jd_categories = Idle
    /\ results = Idle /\ encoded = {} /\ encode_raised = "none"
    /\ ExtractIdle /\ ReconcileIdle /\ SessionIdle

\* analyzer.py 30-79 behind the cache: generate_content answers or raises,
\* and in both cases the body returns a value, which is stored
CachedExtract(text, is_job_description, outcome) ==
    LET args == <<text, is_job_description>>
        resp == IF outcome = "raise"
                THEN [kind |-> "raise", fenced |-> FALSE, body |-> JNull]
                ELSE GenerationFor(text)
    IN /\ pc = "cache"
       /\ IF args \in DOMAIN extract_cache
          THEN UNCHANGED <<extract_cache, generate_runs>>
          ELSE /\ generate_runs' = [generate_runs EXCEPT ![args] = @ + 1]
               /\ extract_cache' =
                      Put(extract_cache, args, ExtractAndCategorize(resp))
       /\ UNCHANGED <<pc, extractVars, alignVars, reconcileVars, sessionVars,
                      align_cache, encode_runs>>

\* analyzer.py 81-148 behind the cache: the body returns and the value is
\* stored, or encode raises and nothing is stored
CachedAnalyze(args, outcome) ==
    LET reached == EncodedCategories(args[1], args[2]) # {}
    IN /\ pc = "cache"
       /\ IF args \in DOMAIN align_cache
          THEN UNCHANGED <<align_cache, encode_runs>>
          ELSE /\ reached => encode_runs[args] < MaxRuns
               /\ encode_runs' =
                      [encode_runs EXCEPT
                          ![args] = IF reached THEN @ + 1 ELSE @]
               /\ IF outcome = "raise"
                  THEN reached /\ UNCHANGED align_cache
                  ELSE align_cache' =
                           Put(align_cache, args,
                               AnalyzeCategorizedAlignment(args[1], args[2],
                                                           similarity, args[3]))
       /\ UNCHANGED <<pc, extractVars, alignVars, reconcileVars, sessionVars,
                      extract_cache, generate_runs>>

NextCache ==
    \/ \E args \in ExtractArgs, outcome \in {"answer", "raise"} :
          CachedExtract(args[1], args[2], outcome)
    \/ \E args \in AlignArgs, outcome \in {"return", "raise"} :
          CachedAnalyze(args, outcome)

SpecCache == InitCache /\ [][NextCache]_vars

\* C14: over any sequence of calls, the text-generation collaborator and the
\* embedding collaborator are each invoked by at most one run of the body
\* per distinct argument tuple.
C14_OneInvocationPerArguments ==
    pc = "cache" =>
        /\ \A args \in ExtractArgs : generate_runs[args] <= 1
        /\ \A args \in AlignArgs : encode_runs[args] <= 1

=============================================================================
